---- MODULE Spec2Model ----
(***************************************************************************)
(* Model of src/temp.py: class MusicDownloader.                            *)
(*                                                                         *)
(* The SQLite table `songs` is the sequence `store` of rows in rowid       *)
(* order.  search_and_download is one call that runs to completion before  *)
(* any other operation starts (the program is single threaded); `pc` is    *)
(* its position, which advances at each call of a remote capability        *)
(* (search_items, get_item, download) and at each iteration of the insert  *)
(* loop, because those are the points where the environment answers.       *)
(* `call` is the record of the call in progress or, when pc = "idle", of   *)
(* the last completed call: its arguments, the store it started from, the  *)
(* capability calls it made in order, and how it ended.                    *)
(***************************************************************************)
EXTENDS Integers, Sequences, FiniteSets, TLC

\* store     the rows of table songs, in rowid order (self.conn)
\* disk      the paths that exist on the file system (os.path.exists)
\* dirBound  whether the module namespace binds DOWNLOAD_DIR: the file reads
\*           the name at lines 112 and 117 and assigns it nowhere, so as shipped
\*           it is unbound and evaluating it raises NameError; it is bound only
\*           if whoever loads the module sets it.  Fixed for a whole run.
\* pc        the position of search_and_download, "idle" between calls,
\*           "stopped" while the program is not running
\* call      the call in progress or last completed
\* player    self.player: 0 for None, else the index of its handle in handles
\* handles   the vlc.MediaPlayer objects created so far: path and state
VARIABLES store, disk, dirBound, pc, call, player, handles

vars == <<store, disk, dirBound, pc, call, player, handles>>

(* ------------------------------ bounds -------------------------------- *)

\* longest file listing get_item answers with
MaxFiles == 2
\* longest candidate list search_items answers with
MaxCandidates == 2
\* number of vlc.MediaPlayer objects created in one run
MaxHandles == 3

(* ------------------------------ inputs -------------------------------- *)

Artists == {"A", "B"}
Dates == {"d1", "d2"}
Identifiers == {"i1", "i2"}
\* requested file_format values
Formats == {"MP3", "ogg"}

\* the remote file descriptors {name, format} an item may list
Catalogue ==
    << [name |-> "t1.mp3", format |-> "mp3"],
       [name |-> "t1.flac", format |-> "Flac"],
       [name |-> "t2.mp3", format |-> "Mp3"] >>

\* the order-preserving sublists of s
RECURSIVE SubSeqs(_)
SubSeqs(s) ==
    IF s = <<>> THEN {<<>>}
    ELSE LET rest == SubSeqs(Tail(s))
         IN  rest \cup {<<Head(s)>> \o r : r \in rest}

Listings == {l \in SubSeqs(Catalogue) : Len(l) <= MaxFiles}

\* candidate lists: sequences of distinct identifiers
CandidateLists ==
    {c \in UNION {[1..n -> Identifiers] : n \in 0..MaxCandidates} :
        \A i, j \in 1..Len(c) : i # j => c[i] # c[j]}

\* arguments of a direct cache_song call
ManualTitle == "own.mp3"
ManualPath == "lib/own.mp3"

\* the files a previous run may have left on disk, and the arguments of play_song
PlayFiles == {"downloads/i1/t1.mp3", "downloads/i1/t2.mp3"}

(* --------------------------- pure functions --------------------------- *)

\* str.lower() on the format strings that occur
Lower(s) ==
    CASE s = "MP3" -> "mp3"
      [] s = "Mp3" -> "mp3"
      [] s = "Flac" -> "flac"
      [] OTHER -> s

\* the module-level name DOWNLOAD_DIR (lines 112, 117)
DOWNLOAD_DIR == "downloads"

\* PathJoin without the item directory
PathJoin_flat(dir, item_id, file_name) == dir \o "/" \o file_name

\* os.path.join(DOWNLOAD_DIR, item_id, file_name)
PathJoin(dir, item_id, file_name) == dir \o "/" \o item_id \o "/" \o file_name

\* f"collection:{artist} AND date:{date}"
Query(artist, date) == "collection:" \o artist \o " AND date:" \o date

\* the WHERE clause with OR in the place of AND
RowMatches_either(row, artist, date) == row.artist = artist \/ row.date = date

\* WHERE artist=? AND date=?
RowMatches(row, artist, date) == row.artist = artist /\ row.date = date

\* [row[0] for row in cursor.fetchall()]
FilePaths(rows) == [k \in 1..Len(rows) |-> rows[k].file_path]

\* get_cached_songs with the date dropped from the WHERE clause
get_cached_songs_any_date(st, artist, date) ==
    FilePaths(SelectSeq(st, LAMBDA row : row.artist = artist))

\* SELECT file_path FROM songs WHERE artist=? AND date=?
get_cached_songs(st, artist, date) ==
    FilePaths(SelectSeq(st, LAMBDA row : RowMatches(row, artist, date)))

\* the UNIQUE constraint on songs.identifier
IdentifierPresent(st, identifier) ==
    \E k \in 1..Len(st) : st[k].identifier = identifier

\* cache_song with INSERT OR REPLACE: a row of the same identifier is deleted
cache_song_or_replace(st, identifier, artist, date, title, file_path) ==
    LET kept == SelectSeq(st, LAMBDA row : row.identifier # identifier)
    IN  [store |-> Append(kept, [id |-> Len(st) + 1, identifier |-> identifier,
                                 title |-> title, artist |-> artist, date |-> date,
                                 file_path |-> file_path]),
         error |-> "none"]

\* cache_song on a table whose UNIQUE constraint is on (identifier, title)
cache_song_unique_per_title(st, identifier, artist, date, title, file_path) ==
    IF \E k \in 1..Len(st) : st[k].identifier = identifier /\ st[k].title = title
    THEN [store |-> st, error |-> "none"]
    ELSE [store |-> Append(st, [id |-> Len(st) + 1, identifier |-> identifier,
                                title |-> title, artist |-> artist, date |-> date,
                                file_path |-> file_path]),
          error |-> "none"]

\* cache_song on a table that lacks the UNIQUE constraint
cache_song_without_unique(st, identifier, artist, date, title, file_path) ==
    [store |-> Append(st, [id |-> Len(st) + 1, identifier |-> identifier,
                           title |-> title, artist |-> artist, date |-> date,
                           file_path |-> file_path]),
     error |-> "none"]

\* INSERT OR IGNORE INTO songs (...) VALUES (...), committed: the table
\* afterwards and the exception the statement raises ("none": it returns)
cache_song(st, identifier, artist, date, title, file_path) ==
    IF IdentifierPresent(st, identifier)
    THEN [store |-> st, error |-> "none"]
    ELSE [store |-> Append(st, [id |-> Len(st) + 1, identifier |-> identifier,
                                title |-> title, artist |-> artist, date |-> date,
                                file_path |-> file_path]),
          error |-> "none"]

\* FormatMatches without the two lower() calls
FormatMatches_case_sensitive(file, file_format) == file.format = file_format

FormatMatches(file, file_format) == Lower(file.format) = Lower(file_format)

\* file['name'] of each file
Names(files) == [k \in 1..Len(files) |-> files[k].name]

\* audio_files without the `if` of the comprehension
audio_files_unfiltered(files, file_format) == Names(files)

\* [file['name'] for file in item.files if file['format'].lower() == file_format.lower()]
audio_files(files, file_format) ==
    Names(SelectSeq(files, LAMBDA file : FormatMatches(file, file_format)))

\* the BINARY collation of SQLite TEXT, on the artist and date strings that occur
Collate(s) ==
    CASE s = "A" -> 1
      [] s = "B" -> 2
      [] s = "d1" -> 1
      [] s = "d2" -> 2

\* ShowLess for ORDER BY date, artist
ShowLess_date_first(x, y) ==
    \/ Collate(x[2]) < Collate(y[2])
    \/ Collate(x[2]) = Collate(y[2]) /\ Collate(x[1]) < Collate(y[1])

\* ORDER BY artist, date: show x sorts before show y
ShowLess(x, y) ==
    \/ Collate(x[1]) < Collate(y[1])
    \/ Collate(x[1]) = Collate(y[1]) /\ Collate(x[2]) < Collate(y[2])

\* the shows of set S in ORDER BY order
RECURSIVE OrderBy(_)
OrderBy(S) ==
    IF S = {} THEN <<>>
    ELSE LET first == CHOOSE x \in S : \A y \in S \ {x} : ShowLess(x, y)
         IN  <<first>> \o OrderBy(S \ {first})

\* SELECT DISTINCT artist, date FROM songs ORDER BY artist, date
list_cached_shows(st) ==
    OrderBy({<<st[k].artist, st[k].date>> : k \in 1..Len(st)})

\* f"{artist} - {date}"
ShowLine(show) == show[1] \o " - " \o show[2]

\* setup_database dropping the table before it creates it
setup_database_recreate(st) == <<>>

\* CREATE TABLE IF NOT EXISTS songs (...) on a database file holding rows st
setup_database(st) == st

\* what download(item_id, files=..., destdir=...) leaves on disk:
\* destdir/item_id/name for each file of the batch
Materialized(destdir, item_id, files) ==
    {destdir \o "/" \o item_id \o "/" \o files[k] : k \in 1..Len(files)}

\* first_identifier taking the last candidate
first_identifier_last(results) == results[Len(results)]

\* search_results[0].get("identifier") (line 96)
first_identifier(results) == results[1]

(* ------------------------------- state -------------------------------- *)

\* one call of a capability: which, its arguments, the player handle it is
\* made on, and its answer ("pending" until it answers)
Event(c, id, files, h, resp) ==
    [call |-> c, id |-> id, files |-> files, h |-> h, resp |-> resp]

NewCall(op, artist, date, fmt, path) ==
    [op |-> op, artist |-> artist, date |-> date, fmt |-> fmt, path |-> path,
     before |-> store, results |-> <<>>, item_id |-> "", listing |-> <<>>,
     audio_files |-> <<>>, downloaded |-> <<>>, calls |-> <<>>,
     outcome |-> "running", error |-> "none", result |-> <<>>]

\* the end of a call: its local variables (results, item_id, item.files,
\* audio_files, downloaded_songs) are gone; what it was called with, what it
\* called and how it ended stay on record
Locals(c) ==
    [c EXCEPT !.results = <<>>, !.item_id = "", !.listing = <<>>,
              !.audio_files = <<>>, !.downloaded = <<>>]

Returned(c, result) == [Locals(c) EXCEPT !.outcome = "returned", !.result = result]

Raised(c, error) == [Locals(c) EXCEPT !.outcome = "raised", !.error = error]

\* c with the answer of its last capability call filled in
Answered(c, resp) == [c EXCEPT !.calls[Len(c.calls)].resp = resp]

Init ==
    /\ store = <<>>
    /\ disk = {}
    /\ dirBound \in BOOLEAN
    /\ pc = "idle"
    /\ call = NewCall("init", "", "", "", "")
    /\ player = 0
    /\ handles = <<>>

(* ------------------------------ cache_song ---------------------------- *)

\* a direct call of cache_song (lines 134-140); `fails` is sqlite3 failing on
\* the backing file, which `with self.conn` rolls back and re-raises
CacheSong(identifier, artist, date, fails) ==
    /\ pc = "idle"
    /\ LET c == NewCall("insert", artist, date, "", ManualPath)
           ev == Event("insert", identifier, <<ManualTitle, ManualPath>>, 0,
                       IF fails THEN "StoreError" ELSE "ok")
           r == cache_song(store, identifier, artist, date, ManualTitle, ManualPath)
       IN  IF fails
           THEN /\ call' = Raised([c EXCEPT !.calls = <<ev>>], "StoreError")
                /\ UNCHANGED store
           ELSE IF r.error # "none"
           THEN /\ call' = Raised([c EXCEPT !.calls = <<ev>>], r.error)
                /\ UNCHANGED store
           ELSE /\ call' = Returned([c EXCEPT !.calls = <<ev>>], <<>>)
                /\ store' = r.store
    /\ UNCHANGED <<disk, dirBound, pc, player, handles>>

(* -------------------------- search_and_download ----------------------- *)

\* lines 81-90: the cache check, and on a miss the call of search_items
Acquire(artist, date, fmt) ==
    /\ pc = "idle"
    /\ LET c == NewCall("acquire", artist, date, fmt, "")
           cached_songs == get_cached_songs(store, artist, date)
       IN  IF cached_songs # <<>>
           THEN /\ call' = Returned(c, cached_songs)
                /\ pc' = "idle"
           ELSE /\ call' = [c EXCEPT !.calls =
                               <<Event("search", Query(artist, date), <<>>, 0, "pending")>>]
                /\ pc' = "search"
    /\ UNCHANGED <<store, disk, dirBound, player, handles>>

\* line 90: search_items raises
SearchRaises ==
    /\ pc = "search"
    /\ call' = Raised(Answered(call, "RemoteServiceError"), "RemoteServiceError")
    /\ pc' = "idle"
    /\ UNCHANGED <<store, disk, dirBound, player, handles>>

\* line 90: search_items answers the candidate list `results`
SearchReturns(results) ==
    /\ pc = "search"
    /\ call' = [Answered(call, "ok") EXCEPT !.results = results]
    /\ pc' = "searched"
    /\ UNCHANGED <<store, disk, dirBound, player, handles>>

\* lines 92-100: no candidate ends the call; otherwise the first one is taken
\* and get_item is called for it
PickCandidate ==
    /\ pc = "searched"
    /\ IF call.results = <<>>
       THEN /\ call' = Returned(call, <<>>)
            /\ pc' = "idle"
       ELSE /\ call' = [call EXCEPT !.item_id = first_identifier(call.results),
                                    !.calls = Append(@, Event("get_item",
                                                              first_identifier(call.results),
                                                              <<>>, 0, "pending"))]
            /\ pc' = "metadata"
    /\ UNCHANGED <<store, disk, dirBound, player, handles>>

\* line 100: get_item raises
GetItemRaises ==
    /\ pc = "metadata"
    /\ call' = Raised(Answered(call, "RemoteServiceError"), "RemoteServiceError")
    /\ pc' = "idle"
    /\ UNCHANGED <<store, disk, dirBound, player, handles>>

\* line 100: get_item answers the listing `files`
GetItemReturns(files) ==
    /\ pc = "metadata"
    /\ call' = [Answered(call, "ok") EXCEPT !.listing = files]
    /\ pc' = "listed"
    /\ UNCHANGED <<store, disk, dirBound, player, handles>>

\* lines 101-112: the listing is filtered; no match ends the call; otherwise
\* download is called, unless its argument DOWNLOAD_DIR cannot be evaluated
FilterAndDownload ==
    /\ pc = "listed"
    /\ LET names == audio_files(call.listing, call.fmt)
           c == [call EXCEPT !.audio_files = names]
       IN  IF names = <<>>
           THEN /\ call' = Returned(c, <<>>)
                /\ pc' = "idle"
           ELSE IF ~dirBound
           THEN /\ call' = Raised(c, "NameError")
                /\ pc' = "idle"
           ELSE /\ call' = [c EXCEPT !.calls =
                               Append(@, Event("download", call.item_id, names, 0, "pending"))]
                /\ pc' = "download"
    /\ UNCHANGED <<store, disk, dirBound, player, handles>>

\* DownloadRaises with the exception swallowed: the insert loop runs
DownloadRaises_swallowed ==
    /\ pc = "download"
    /\ call' = Answered(call, "RemoteServiceError")
    /\ pc' = "insert"
    /\ UNCHANGED <<store, disk, dirBound, player, handles>>

\* line 112: download raises
DownloadRaises ==
    /\ pc = "download"
    /\ call' = Raised(Answered(call, "RemoteServiceError"), "RemoteServiceError")
    /\ pc' = "idle"
    /\ UNCHANGED <<store, disk, dirBound, player, handles>>

\* line 112: download returns, having written the batch under
\* DOWNLOAD_DIR/item_id/
DownloadReturns ==
    /\ pc = "download"
    /\ disk' = disk \cup Materialized(DOWNLOAD_DIR, call.item_id, call.audio_files)
    /\ call' = Answered(call, "ok")
    /\ pc' = "insert"
    /\ UNCHANGED <<store, dirBound, player, handles>>

\* InsertStep with the batch rolled back when an insert fails
InsertStep_rollback(fails) ==
    /\ pc = "insert"
    /\ LET file_name == call.audio_files[Len(call.downloaded) + 1]
           file_path == PathJoin(DOWNLOAD_DIR, call.item_id, file_name)
           r == cache_song(store, call.item_id, call.artist, call.date,
                           file_name, file_path)
           c == [call EXCEPT !.calls =
                    Append(@, Event("insert", call.item_id, <<file_name, file_path>>, 0,
                                    IF fails THEN "StoreError" ELSE "ok"))]
           downloaded_songs == Append(call.downloaded, file_path)
       IN  IF fails
           THEN /\ call' = Raised(c, "StoreError")
                /\ pc' = "idle"
                /\ store' = call.before
           ELSE /\ store' = r.store
                /\ IF Len(downloaded_songs) = Len(call.audio_files)
                   THEN /\ call' = Returned(c, downloaded_songs)
                        /\ pc' = "idle"
                   ELSE /\ call' = [c EXCEPT !.downloaded = downloaded_songs]
                        /\ pc' = "insert"
    /\ UNCHANGED <<disk, dirBound, player, handles>>

\* lines 116-122: one iteration of the loop over audio_files, and the return
\* after the last one; `fails` is sqlite3 failing on the backing file
InsertStep(fails) ==
    /\ pc = "insert"
    /\ LET file_name == call.audio_files[Len(call.downloaded) + 1]
           file_path == PathJoin(DOWNLOAD_DIR, call.item_id, file_name)
           r == cache_song(store, call.item_id, call.artist, call.date,
                           file_name, file_path)
           c == [call EXCEPT !.calls =
                    Append(@, Event("insert", call.item_id, <<file_name, file_path>>, 0,
                                    IF fails THEN "StoreError" ELSE "ok"))]
           downloaded_songs == Append(call.downloaded, file_path)
       IN  IF fails
           THEN /\ call' = Raised(c, "StoreError")
                /\ pc' = "idle"
                /\ UNCHANGED store
           ELSE IF r.error # "none"
           THEN /\ call' = Raised(c, r.error)
                /\ pc' = "idle"
                /\ UNCHANGED store
           ELSE /\ store' = r.store
                /\ IF Len(downloaded_songs) = Len(call.audio_files)
                   THEN /\ call' = Returned(c, downloaded_songs)
                        /\ pc' = "idle"
                   ELSE /\ call' = [c EXCEPT !.downloaded = downloaded_songs]
                        /\ pc' = "insert"
    /\ UNCHANGED <<disk, dirBound, player, handles>>

\* the process stops between the return of download (line 112) and the first
\* cache_song of the loop (line 118): its memory is gone, the committed rows
\* and the files on disk stay
Crash ==
    /\ pc = "insert"
    /\ call.downloaded = <<>>
    /\ pc' = "stopped"
    /\ call' = [Locals(call) EXCEPT !.outcome = "killed"]
    /\ player' = 0
    /\ handles' = <<>>
    /\ UNCHANGED <<store, disk, dirBound>>

\* Construct recording the files it finds on disk for the interrupted query
Construct_resume ==
    /\ pc = "stopped"
    /\ LET d == call.calls[CHOOSE k \in DOMAIN call.calls : call.calls[k].call = "download"]
           recovered == cache_song(store, d.id, call.artist, call.date, d.files[1],
                                   PathJoin(DOWNLOAD_DIR, d.id, d.files[1])).store
       IN  /\ store' = recovered
           /\ call' = [NewCall("init", call.artist, call.date, "", "") EXCEPT
                          !.before = recovered, !.outcome = "returned"]
    /\ player' = 0
    /\ handles' = <<>>
    /\ pc' = "idle"
    /\ UNCHANGED <<disk, dirBound>>

\* lines 50-52, 185: the program is started again on the same database file;
\* the new record keeps the key of the query that was interrupted
Construct ==
    /\ pc = "stopped"
    /\ store' = setup_database(store)
    /\ player' = 0
    /\ handles' = <<>>
    /\ pc' = "idle"
    /\ call' = [NewCall("init", call.artist, call.date, "", "") EXCEPT
                   !.before = setup_database(store), !.outcome = "returned"]
    /\ UNCHANGED <<disk, dirBound>>

(* ------------------------ the other store operations ------------------ *)

\* a direct call of get_cached_songs (lines 125-132)
Lookup(artist, date) ==
    /\ pc = "idle"
    /\ call' = Returned(NewCall("lookup", artist, date, "", ""),
                        get_cached_songs(store, artist, date))
    /\ UNCHANGED <<store, disk, dirBound, pc, player, handles>>

\* lines 163-175: the result is the lines printed for the shows; the notice
\* printed for an empty table is on the call log
ListCachedShows ==
    /\ pc = "idle"
    /\ LET shows == list_cached_shows(store)
           c == NewCall("list", "", "", "", "")
       IN  call' = Returned(
               [c EXCEPT !.calls =
                   IF shows = <<>>
                   THEN <<Event("print", "No cached shows found.", <<>>, 0, "ok")>>
                   ELSE <<>>],
               [k \in 1..Len(shows) |-> ShowLine(shows[k])])
    /\ UNCHANGED <<store, disk, dirBound, pc, player, handles>>

(* ------------------------------ playback ------------------------------ *)

\* vlc.MediaPlayer.stop() on handle h
\* stop_handle leaving the handle as it is
stop_handle_ignored(hs, h) == hs

stop_handle(hs, h) == [hs EXCEPT ![h].state = "stopped"]

\* path_exists answering yes for every path
path_exists_always(dsk, file_path) == TRUE

\* os.path.exists(file_path) (line 145)
path_exists(dsk, file_path) == file_path \in dsk

\* StopIfPlayer with the stop left out
StopIfPlayer_never(hs, p) == [handles |-> hs, calls |-> <<>>]

\* `if self.player: self.player.stop()` (lines 149-150, 158-159): the handles
\* afterwards and the calls made
StopIfPlayer(hs, p) ==
    IF p # 0
    THEN [handles |-> stop_handle(hs, p), calls |-> <<Event("stop", hs[p].path, <<>>, p, "ok")>>]
    ELSE [handles |-> hs, calls |-> <<>>]

\* lines 143-154
PlaySong(file_path) ==
    /\ pc = "idle"
    /\ LET c == NewCall("play", "", "", "", file_path)
           stopped == StopIfPlayer(handles, player)
           h == Len(handles) + 1
       IN  IF ~path_exists(disk, file_path)
           THEN /\ call' = Returned(c, <<>>)
                /\ UNCHANGED <<player, handles>>
           ELSE /\ Len(handles) < MaxHandles
                /\ handles' = Append(stopped.handles,
                                     [path |-> file_path, state |-> "playing"])
                /\ player' = h
                /\ call' = Returned([c EXCEPT !.calls = stopped.calls \o
                                        <<Event("MediaPlayer", file_path, <<>>, h, "ok"),
                                          Event("play", file_path, <<>>, h, "ok")>>], <<>>)
    /\ UNCHANGED <<store, disk, dirBound, pc>>

\* lines 156-160
StopPlayback ==
    /\ pc = "idle"
    /\ LET stopped == StopIfPlayer(handles, player)
       IN  /\ handles' = stopped.handles
           /\ call' = Returned([NewCall("stop", "", "", "", "")
                                   EXCEPT !.calls = stopped.calls], <<>>)
    /\ UNCHANGED <<store, disk, dirBound, pc, player>>

(* --------------------------- specification ---------------------------- *)

Next ==
    \/ \E identifier \in Identifiers, artist \in Artists, date \in Dates, fails \in BOOLEAN :
          CacheSong(identifier, artist, date, fails)
    \/ \E artist \in Artists, date \in Dates, fmt \in Formats : Acquire(artist, date, fmt)
    \/ SearchRaises
    \/ \E results \in CandidateLists : SearchReturns(results)
    \/ PickCandidate
    \/ GetItemRaises
    \/ \E files \in Listings : GetItemReturns(files)
    \/ FilterAndDownload
    \/ DownloadRaises
    \/ DownloadReturns
    \/ \E fails \in BOOLEAN : InsertStep(fails)
    \/ Crash
    \/ Construct
    \/ \E artist \in Artists, date \in Dates : Lookup(artist, date)
    \/ ListCachedShows

Spec == Init /\ [][Next]_vars

\* search_and_download alone, from an empty table
NextAcquire ==
    \/ \E artist \in Artists, date \in Dates, fmt \in Formats : Acquire(artist, date, fmt)
    \/ SearchRaises
    \/ \E results \in CandidateLists : SearchReturns(results)
    \/ PickCandidate
    \/ GetItemRaises
    \/ \E files \in Listings : GetItemReturns(files)
    \/ FilterAndDownload
    \/ DownloadRaises
    \/ DownloadReturns
    \/ \E fails \in BOOLEAN : InsertStep(fails)

SpecAcquire == Init /\ [][NextAcquire]_vars

\* the playback operations, started with any of PlayFiles on disk
InitPlayback ==
    /\ store = <<>>
    /\ disk \in SUBSET PlayFiles
    /\ dirBound \in BOOLEAN
    /\ pc = "idle"
    /\ call = NewCall("init", "", "", "", "")
    /\ player = 0
    /\ handles = <<>>

NextPlayback ==
    \/ \E file_path \in PlayFiles : PlaySong(file_path)
    \/ StopPlayback

SpecPlayback == InitPlayback /\ [][NextPlayback]_vars

(* ------------------- vocabulary of the properties --------------------- *)

SeqToSet(s) == {s[k] : k \in DOMAIN s}

\* the rows of table st stored for the pair (artist, date)
RowsFor(st, artist, date) ==
    {k \in DOMAIN st : st[k].artist = artist /\ st[k].date = date}

IdentifiersOf(st) == {st[k].identifier : k \in DOMAIN st}

\* the positions in c's call log of the calls of the given capabilities
CallsOf(c, kinds) == {k \in DOMAIN c.calls : c.calls[k].call \in kinds}

Remote == {"search", "get_item", "download"}

LastCall(c) == c.calls[Len(c.calls)]

\* the spellings of one format name
Spellings == {{"mp3", "Mp3", "MP3"}, {"flac", "Flac"}, {"ogg"}}

SameIgnoringCase(a, b) == \E S \in Spellings : a \in S /\ b \in S

\* the names of the files of a listing whose format is fmt, ignoring case
RECURSIVE Matching(_, _)
Matching(listing, fmt) ==
    IF listing = <<>> THEN <<>>
    ELSE IF SameIgnoringCase(Head(listing).format, fmt)
         THEN <<Head(listing).name>> \o Matching(Tail(listing), fmt)
         ELSE Matching(Tail(listing), fmt)

\* an acquire that has ended
AcquireEnded == pc = "idle" /\ call.op = "acquire"

\* an acquire that missed the cache, downloaded a batch and returned
AcquireDownloaded ==
    /\ AcquireEnded
    /\ call.outcome = "returned"
    /\ CallsOf(call, {"download"}) # {}

(* ------------------------------ C1 ------------------------------------ *)

\* C1: whenever the store holds at least one record for the exact
\* (artist, date) pair, acquire returns exactly the file_paths stored for that
\* pair and calls neither search, metadata nor download.
C1_CacheHitShortCircuit ==
    LET rows == RowsFor(call.before, call.artist, call.date)
    IN  (call.op = "acquire" /\ rows # {}) =>
            /\ pc = "idle"
            /\ call.outcome = "returned"
            /\ Len(call.result) = Cardinality(rows)
            /\ SeqToSet(call.result) = {call.before[k].file_path : k \in rows}
            /\ call.calls = <<>>
            /\ store = call.before

\* a cache hit in a store that also holds a record of another key
C1_Witness ==
    /\ AcquireEnded
    /\ RowsFor(call.before, call.artist, call.date) # {}
    /\ Len(call.before) = 2
    /\ Cardinality(RowsFor(call.before, call.artist, call.date)) = 1
    /\ call.result # <<>>

(* ------------------------------ C2 ------------------------------------ *)

\* C2: the store holds at most one record per identifier, and an insert whose
\* identifier is already present leaves the store unchanged and raises no
\* error (it returns whenever the backing file itself did not fail).
C2_IdempotentInsert ==
    /\ \A i, j \in DOMAIN store :
          store[i].identifier = store[j].identifier => i = j
    /\ (call.op = "insert" /\ call.calls[1].id \in IdentifiersOf(call.before)) =>
          /\ store = call.before
          /\ call.calls[1].resp = "ok" => call.outcome = "returned"

\* a second insert of an identifier, under another key, has returned
C2_Witness ==
    /\ call.op = "insert"
    /\ call.calls[1].id \in IdentifiersOf(call.before)
    /\ call.outcome = "returned"
    /\ RowsFor(call.before, call.artist, call.date) = {}

(* ------------------------------ C3 ------------------------------------ *)

\* C3: when a cache-miss acquire with a successful download returns, the store
\* holds one record per file of the downloaded batch: the candidate's
\* identifier, the query's artist and date, the file name as title and the
\* computed local path.
C3_EveryDownloadedFileRecorded ==
    AcquireDownloaded =>
        \A k \in CallsOf(call, {"download"}) :
            \A f \in SeqToSet(call.calls[k].files) :
                \E r \in DOMAIN store :
                    /\ store[r].identifier = call.calls[k].id
                    /\ store[r].artist = call.artist
                    /\ store[r].date = call.date
                    /\ store[r].title = f
                    /\ store[r].file_path = PathJoin(DOWNLOAD_DIR, call.calls[k].id, f)

(* ------------------------------ C4 ------------------------------------ *)

\* C4: every path returned by a cache-miss acquire is the file_path of a
\* record that is in the store when acquire returns.
C4_ReturnedPathsRecorded ==
    (AcquireEnded /\ call.outcome = "returned" /\ call.calls # <<>>) =>
        \A p \in SeqToSet(call.result) :
            \E r \in DOMAIN store : store[r].file_path = p

(* ------------------------------ C5 ------------------------------------ *)

\* C5: after an acquire(artist, date) that downloaded files and returned a
\* non-empty sequence, a later acquire for the same (artist, date) is a cache
\* hit that calls neither search nor download.
C5_LaterAcquireIsCacheHit ==
    [][(/\ AcquireDownloaded
        /\ call.result # <<>>
        /\ call'.op = "acquire"
        /\ call'.artist = call.artist
        /\ call'.date = call.date)
       => (pc' = "idle" /\ call'.outcome = "returned" /\ call'.calls = <<>>)]_vars

(* ------------------------------ C6 ------------------------------------ *)

\* the rows of table t that table st does not hold
NewRows(st, t) == {t[k] : k \in DOMAIN t} \ {st[k] : k \in DOMAIN st}

\* C6: on a cache miss the batch passed to download is exactly the files of
\* the first candidate's listing whose format equals the requested one
\* ignoring case (download is called with them whenever there are any and
\* DOWNLOAD_DIR is bound); no other file is written or recorded.
C6_DownloadBatchIsFormatFilter ==
    /\ [](\A k \in CallsOf(call, {"download"}) :
            /\ call.op = "acquire"
            /\ CallsOf(call, {"download"}) = {k}
            /\ pc \in {"download", "insert"} =>
                  /\ call.calls[k].id = call.results[1]
                  /\ call.calls[k].files = Matching(call.listing, call.fmt))
    /\ [][LET batch == Matching(call.listing, call.fmt)
          IN  /\ pc = "listed" =>
                    /\ pc' = "download" <=> (batch # <<>> /\ dirBound)
                    /\ pc' = "download" =>
                          LastCall(call') = [call |-> "download", id |-> call.results[1],
                                             files |-> batch, h |-> 0, resp |-> "pending"]
              /\ pc # "listed" => CallsOf(call', {"download"}) \subseteq CallsOf(call, {"download"})
              /\ pc = "download" =>
                    disk' \ disk \subseteq
                        {"downloads/" \o call.results[1] \o "/" \o f : f \in SeqToSet(batch)}
              /\ pc # "download" => disk' = disk
              /\ pc = "insert" =>
                    \A row \in NewRows(store, store') :
                        /\ row.title \in SeqToSet(batch)
                        /\ row.identifier = call.results[1]
         ]_vars

\* download has been called with the one file whose format, spelt "Mp3", is
\* the requested "MP3", out of a listing that also holds a file of another format
C6_Witness ==
    /\ pc = "download"
    /\ call.fmt = "MP3"
    /\ Len(call.listing) = 2
    /\ \E k \in DOMAIN call.listing : call.listing[k].format = "Flac"
    /\ LastCall(call).files = <<"t2.mp3">>

(* ------------------------------ C7 ------------------------------------ *)

\* acquire returns the empty sequence, with no download call made and the
\* store as it was before the call
ReturnsEmpty ==
    /\ pc' = "idle"
    /\ call'.outcome = "returned"
    /\ call'.result = <<>>
    /\ CallsOf(call', {"download"}) = {}
    /\ store' = call.before
    /\ disk' = disk

\* C7: on a cache miss, when the search yields no candidates or the first
\* candidate has no file of the requested format, acquire returns an empty
\* sequence without raising, never calls download and leaves the store
\* unchanged.
C7_NoResultsIsEmptyNotError ==
    [][/\ (pc = "searched" /\ call.results = <<>>) => ReturnsEmpty
       /\ (pc = "listed" /\ Matching(call.listing, call.fmt) = <<>>) => ReturnsEmpty
      ]_vars

\* an acquire that listed the first candidate's files has returned empty from a
\* non-empty store
C7_Witness ==
    /\ AcquireEnded
    /\ call.outcome = "returned"
    /\ call.result = <<>>
    /\ Len(call.calls) = 2
    /\ LastCall(call).call = "get_item"
    /\ store # <<>>

(* ------------------------------ C8 ------------------------------------ *)

InsertFailed(c) ==
    {k \in CallsOf(c, {"insert"}) : c.calls[k].resp = "StoreError"}

\* t begins with the rows of st
Extends(t, st) == Len(st) <= Len(t) /\ SubSeq(t, 1, Len(st)) = st

\* C8: if an insert fails with a store error in the insert loop of a
\* cache-miss acquire, acquire makes no further insert, raises the error
\* instead of returning paths, and the records already inserted for the batch
\* remain in the store.
C8_InsertFailureAborts ==
    /\ [](\A k \in InsertFailed(call) :
            /\ k = Len(call.calls)
            /\ pc = "idle"
            /\ call.outcome = "raised"
            /\ call.error = "StoreError"
            /\ call.result = <<>>
            /\ Extends(store, call.before)
            /\ (/\ call.op = "acquire"
                /\ Cardinality(CallsOf(call, {"insert"})) >= 2
                /\ call.calls[k].id \notin IdentifiersOf(call.before)) =>
                    \E r \in DOMAIN store :
                        /\ store[r].identifier = call.calls[k].id
                        /\ store[r].artist = call.artist
                        /\ store[r].date = call.date
                        /\ <<store[r].title, store[r].file_path>> = call.calls[k - 1].files)
    /\ [][(pc = "insert" /\ InsertFailed(call') # {}) => store' = store]_vars

\* the second insert of a batch failed after the first one added a record
C8_Witness ==
    /\ AcquireEnded
    /\ InsertFailed(call) # {}
    /\ Cardinality(CallsOf(call, {"insert"})) = 2
    /\ Len(store) = Len(call.before) + 1

(* ------------------------------ C9 ------------------------------------ *)

RemoteFailed(c) ==
    {k \in CallsOf(c, Remote) : c.calls[k].resp = "RemoteServiceError"}

\* C9: if search, metadata or download fails during acquire, the query ends
\* with that error, it inserts no record, and every key is served from the
\* store exactly as before.
C9_RemoteFailureAborts ==
    \A k \in RemoteFailed(call) :
        /\ k = Len(call.calls)
        /\ pc = "idle"
        /\ call.outcome = "raised"
        /\ call.error = "RemoteServiceError"
        /\ CallsOf(call, {"insert"}) = {}
        /\ store = call.before

\* download failed in an acquire made on a store that already serves a key
C9_Witness ==
    /\ AcquireEnded
    /\ RemoteFailed(call) # {}
    /\ LastCall(call).call = "download"
    /\ store # <<>>

(* ------------------------------ C10 ----------------------------------- *)

Playing(hs) == {h \in DOMAIN hs : hs[h].state = "playing"}

\* C10: at most one playback handle is active; a play_song issued while a
\* handle is playing stops that handle before the new handle starts playing,
\* and the new handle is then the only active one.
C10_PlaybackMutualExclusion ==
    /\ [](Cardinality(Playing(handles)) <= 1 /\ Playing(handles) \subseteq {player})
    /\ [][Len(handles') > Len(handles) =>
            /\ call'.op = "play"
            /\ Playing(handles') = {Len(handles')}
            /\ player' = Len(handles')
            /\ handles'[player'].path = call'.path
            /\ \A h \in Playing(handles) :
                  \E i, j \in DOMAIN call'.calls :
                      /\ i < j
                      /\ call'.calls[i].call = "stop" /\ call'.calls[i].h = h
                      /\ call'.calls[j].call = "play" /\ call'.calls[j].h = player'
         ]_vars

\* pathB was played while pathA was playing
C10_Witness ==
    /\ call.op = "play"
    /\ Len(handles) = 2
    /\ handles[1].path # handles[2].path
    /\ handles[1].state = "stopped"
    /\ handles[2].state = "playing"
    /\ Len(call.calls) = 3

(* ------------------------------ C11 ----------------------------------- *)

\* C11: a play_song with a path that does not exist on disk leaves the
\* playback state as it was: it sends no stop, creates no handle, and a
\* handle that was playing goes on playing.
C11_MissingFileLeavesPlayback ==
    [][(call'.op = "play" /\ call'.path \notin disk) =>
          /\ call'.calls = <<>>
          /\ handles' = handles
          /\ player' = player
          /\ Playing(handles') = Playing(handles)
      ]_vars

\* a missing path was asked for while another file was playing
C11_Witness ==
    /\ call.op = "play"
    /\ call.path \notin disk
    /\ call.outcome = "returned"
    /\ player # 0
    /\ Playing(handles) = {player}

(* ------------------------------ C12 ----------------------------------- *)

\* C12: a stop_playback issued while a handle is playing leaves no handle
\* playing; issued while none is playing (before any play_song, or after an
\* earlier stop_playback) it changes neither the handles nor the player.
C12_StopPlayback ==
    [][call'.op = "stop" =>
          /\ Playing(handles') = {}
          /\ Len(handles') = Len(handles)
          /\ \A h \in DOMAIN handles : handles'[h].path = handles[h].path
          /\ Playing(handles) = {} => (handles' = handles /\ player' = player)
      ]_vars

\* a playing handle was stopped by stop_playback
C12_Witness ==
    /\ call.op = "stop"
    /\ handles # <<>>
    /\ player # 0
    /\ Playing(handles) = {}
    /\ Len(call.calls) = 1

(* ------------------------------ C13 ----------------------------------- *)

\* the artists and the dates in ascending order
ArtistsInOrder == <<"A", "B">>

DatesInOrder == <<"d1", "d2">>

Position(x, s) == CHOOSE k \in DOMAIN s : s[k] = x

\* show p comes before show q when ordering by artist, then by date
Earlier(p, q) ==
    \/ Position(p[1], ArtistsInOrder) < Position(q[1], ArtistsInOrder)
    \/ /\ p[1] = q[1]
       /\ Position(p[2], DatesInOrder) < Position(q[2], DatesInOrder)

\* the (artist, date) pairs that have a row in table st
ShowsOf(st) == {<<st[k].artist, st[k].date>> : k \in DOMAIN st}

\* C13: list_cached_shows lists every (artist, date) pair that has at least
\* one row exactly once and nothing else, ordered by artist and then by date,
\* and leaves the table as it was.
C13_DistinctShowsListed ==
    call.op = "list" =>
        /\ call.outcome = "returned"
        /\ store = call.before
        /\ Len(call.result) = Cardinality(ShowsOf(store))
        /\ \A p \in ShowsOf(store) :
              \E i \in DOMAIN call.result : call.result[i] = p[1] \o " - " \o p[2]
        /\ \A i, j \in DOMAIN call.result :
              i < j => \E p, q \in ShowsOf(store) :
                          /\ call.result[i] = p[1] \o " - " \o p[2]
                          /\ call.result[j] = q[1] \o " - " \o q[2]
                          /\ Earlier(p, q)

\* two shows were stored in the order (B, d1), (A, d2) and then listed
C13_Witness ==
    /\ call.op = "list"
    /\ Len(store) = 2
    /\ store[1].artist = "B" /\ store[1].date = "d1"
    /\ store[2].artist = "A" /\ store[2].date = "d2"
    /\ call.result = <<"A - d2", "B - d1">>

(* ------------------------------ C14 ----------------------------------- *)

\* C14: get_cached_songs(artist, date) returns the file_path of every row
\* whose artist and date both equal the arguments and of no other row; it
\* returns the empty list when no row matches.
C14_LookupReturnsMatchingPaths ==
    call.op = "lookup" =>
        /\ call.outcome = "returned"
        /\ store = call.before
        /\ Len(call.result) = Cardinality(RowsFor(store, call.artist, call.date))
        /\ SeqToSet(call.result) =
              {store[k].file_path : k \in RowsFor(store, call.artist, call.date)}

\* a lookup on a table holding a row of the key and a row of the same
\* artist under another date
C14_Witness ==
    /\ call.op = "lookup"
    /\ Len(call.result) = 1
    /\ Len(store) = 2
    /\ \E k \in DOMAIN store : store[k].artist = call.artist /\ store[k].date # call.date

(* ------------------------------ C15 ----------------------------------- *)

\* C15: no operation (setup_database, cache_song, get_cached_songs,
\* list_cached_shows, search_and_download) deletes or changes a row: every
\* step leaves the rows it found in place and at most appends rows.
C15_RowsOnlyGrow == [][Extends(store', store)]_vars

\* the program was started again on a table that already held two rows
C15_Witness ==
    /\ call.op = "init"
    /\ call.outcome = "returned"
    /\ pc = "idle"
    /\ Len(store) = 2

(* ------------------------------ C16 ----------------------------------- *)

\* C16: on a cache miss whose search answers a non-empty list only the first
\* candidate is used: get_item is called once and for its identifier,
\* download is called for no other identifier, and every row inserted
\* carries that identifier.
C16_OnlyFirstCandidateUsed ==
    [][(call.op = "acquire" /\ call.results # <<>>) =>
          /\ \A k \in CallsOf(call', {"get_item", "download", "insert"}) :
                call'.calls[k].id = call.results[1]
          /\ Cardinality(CallsOf(call', {"get_item"})) = 1
          /\ Cardinality(CallsOf(call', {"download"})) <= 1
          /\ \A r \in NewRows(store, store') : r.identifier = call.results[1]
      ]_vars

\* the search answered two candidates and a row of the batch is stored
C16_Witness ==
    /\ pc = "insert"
    /\ Len(call.results) = 2
    /\ call.results[1] # call.results[2]
    /\ Len(call.downloaded) = 1
    /\ \E r \in NewRows(call.before, store) : r.identifier = call.results[1]

(* ------------------------------ C17 ----------------------------------- *)

\* C17: within search_and_download every insert comes after the download
\* call has returned successfully, and the file_path of each row inserted
\* names a file that is on disk when the row is inserted.
C17_InsertAfterDownload ==
    /\ [](call.op = "acquire" =>
            \A i \in CallsOf(call, {"insert"}) :
                \E j \in CallsOf(call, {"download"}) :
                    j < i /\ call.calls[j].resp = "ok")
    /\ [][call'.op = "acquire" =>
            /\ \A r \in NewRows(store, store') : r.file_path \in disk
            /\ \A i \in CallsOf(call', {"insert"}) \ CallsOf(call, {"insert"}) :
                  call'.calls[i].files[2] \in disk
         ]_vars

\* a cache miss has downloaded a batch and stored a row for it
C17_Witness ==
    /\ AcquireDownloaded
    /\ NewRows(call.before, store) # {}
    /\ \A r \in NewRows(call.before, store) : r.file_path \in disk

(* ------------------------------ C18 ----------------------------------- *)

\* the program has been started again after a query for (artist, date) was
\* interrupted, and nothing has been called since
Restarted == call.op = "init" /\ call.artist # ""

Served(st, artist, date) ==
    {<<k, st[k].file_path>> : k \in RowsFor(st, artist, date)}

\* C19: search_and_download(artist, date) inserts only rows that carry its
\* own artist and date, and for every other key a lookup returns after the
\* call (and at every point of it) what it returned before.
C19_AcquireTouchesOwnKeyOnly ==
    call.op = "acquire" =>
        /\ \A r \in NewRows(call.before, store) :
              r.artist = call.artist /\ r.date = call.date
        /\ \A artist \in Artists, date \in Dates :
              <<artist, date>> # <<call.artist, call.date>> =>
                  /\ Served(store, artist, date) = Served(call.before, artist, date)
                  /\ get_cached_songs(store, artist, date) =
                        get_cached_songs(call.before, artist, date)

\* a cache miss stored a row while the table held a row of another key
C19_Witness ==
    /\ AcquireDownloaded
    /\ NewRows(call.before, store) # {}
    /\ \E k \in DOMAIN call.before :
          <<call.before[k].artist, call.before[k].date>> # <<call.artist, call.date>>

(* ------------------------------ C20 ----------------------------------- *)

\* a search_and_download that was answered from the table
CacheHit ==
    /\ AcquireEnded
    /\ call.outcome = "returned"
    /\ call.calls = <<>>
    /\ call.result # <<>>

\* C20: in every table reached from the empty one by search_and_download
\* calls alone each (artist, date) has at most one row, and a cache hit
\* returns exactly one path, also when the batch downloaded for the key had
\* several files.
C20_OneRowPerKey ==
    /\ \A artist \in Artists, date \in Dates :
          Cardinality(RowsFor(store, artist, date)) <= 1
    /\ CacheHit => Len(call.result) = 1

\* a cache hit on the only row, with two files of the item on disk
C20_Witness ==
    /\ CacheHit
    /\ Len(store) = 1
    /\ store[1].identifier = "i1"
    /\ call.result = <<"downloads/i1/t1.mp3">>
    /\ {"downloads/i1/t1.mp3", "downloads/i1/t2.mp3"} \subseteq disk

====
